---- MODULE Spec2Model ----
(***************************************************************************)
(* Remote-port memory master, GPIO and memory slave devices of tlmu:       *)
(* hw/core/remote-port-memory-master.c, hw/core/remote-port-gpio.c,        *)
(* hw/core/remote-port-memory-slave.c, include/hw/remote-port-proto.h.     *)
(*                                                                         *)
(* 64-bit quantities are sequences of 8 bytes, least significant first     *)
(* (TLC's integers are 32 bits wide); 32-bit ints are 4 such bytes.        *)
(* Buffers handed to rp_write are sequences of bytes in memory order.      *)
(***************************************************************************)
EXTENDS Integers, Sequences, FiniteSets, TLC

\* ------------------------------------------------------------------ bounds
NumThreads == 2
MaxCalls == 2
MaxGpio == 1
MaxClk == 1
MaxInbound == 2

\* ------------------------------------------------------- program constants
RP_CMD_read == 3
RP_CMD_write == 4
RP_CMD_interrupt == 5
RP_PKT_FLAGS_response == 2
\* sizeof(struct rp_pkt_hdr): five packed uint32_t
SizeofHdr == 20
\* sizeof(struct rp_pkt_busaccess): hdr + 3 * uint64_t + 3 * uint32_t, packed
SizeofBusaccess == 56
\* sizeof(struct rp_pkt_interrupt): hdr + 2 * uint64_t + uint32_t + uint8_t
SizeofInterrupt == 41
\* "num-gpios" property default
NumGpios == 16

Threads == 1..NumThreads

\* no thread: an unlocked mutex, an empty execution context
None == 0

\* ------------------------------------------------------------ byte helpers
Zeros(n) == [i \in 1..n |-> 0]

RECURSIVE BitOr(_, _)
\* a | b on naturals
BitOr(a, b) ==
  IF a = 0 THEN b
  ELSE IF b = 0 THEN a
  ELSE (IF a % 2 = 1 \/ b % 2 = 1 THEN 1 ELSE 0) + 2 * BitOr(a \div 2, b \div 2)

\* a | b on equally long little-endian byte sequences
Or64(a, b) == [i \in 1..Len(a) |-> BitOr(a[i], b[i])]

\* cpu_to_be32: the 4 bytes of x in memory, most significant first
Be32(x) == << (x \div 16777216) % 256, (x \div 65536) % 256, (x \div 256) % 256, x % 256 >>

\* be32_to_cpu: the value of 4 bytes of memory read most significant first
be32_to_cpu(b) == ((b[1] * 256 + b[2]) * 256 + b[3]) * 256 + b[4]

\* cpu_to_be64 of a value below 2^31
Be64(x) == Zeros(4) \o Be32(x)

be64_to_cpu(b) == be32_to_cpu(SubSeq(b, 5, 8))

\* a uint64_t below 2^31 as 8 bytes, least significant first
U64(x) == << x % 256, (x \div 256) % 256, (x \div 65536) % 256, (x \div 16777216) % 256, 0, 0, 0, 0 >>

\* value >> (i * 8) on a uint64_t
Shr8(v, i) == [k \in 1..8 |-> IF k + i <= 8 THEN v[k + i] ELSE 0]

\* (uint8_t) v on a uint64_t
ToU8(v) == v[1]

\* ---------------------------------------------------------- configuration
\* The remote-port adaptors (struct RemotePort) of the machine.
Adaptors == {1, 2}

\* The memory masters: two on adaptor 1 (rp-chan0 0 and 1), one on adaptor 2.
\* Each has one map; offset is cfg.mapoffset[0].
Masters == { [rp |-> 1, rp_dev |-> 0, offset |-> 0],
             [rp |-> 1, rp_dev |-> 1, offset |-> 4096],
             [rp |-> 2, rp_dev |-> 0, offset |-> 0] }

\* The GPIO device, on adaptor 1.
Gpio == [rp |-> 1, rp_dev |-> 2, num_gpios |-> NumGpios]

\* ------------------------------------------------------------ packet codec
\* rp_encode_hdr: cmd, len, id, flags, dev, each in network byte order
rp_encode_hdr(cmd, id, dev, len, flags) ==
  Be32(cmd) \o Be32(len) \o Be32(id) \o Be32(flags) \o Be32(dev)

\* the bus-access fields after the header, in network byte order
rp_encode_busaccess_common(clk, addr, attr, size, width, stream_width) ==
  Be64(clk) \o Be64(attr) \o Be64(addr) \o Be32(size) \o Be32(width) \o Be32(stream_width)

\* rp_encode_read: fills *pkt and returns sizeof *pkt
rp_encode_read(id, dev, clk, addr, attr, size, width, stream_width) ==
  [ pkt |-> rp_encode_hdr(RP_CMD_read, id, dev, SizeofBusaccess - SizeofHdr, 0)
              \o rp_encode_busaccess_common(clk, addr, attr, size, width, stream_width),
    ret |-> SizeofBusaccess ]

\* rp_encode_write: hdr.len counts the trailing data, the return value does not
rp_encode_write(id, dev, clk, addr, attr, size, width, stream_width) ==
  [ pkt |-> rp_encode_hdr(RP_CMD_write, id, dev, SizeofBusaccess - SizeofHdr + size, 0)
              \o rp_encode_busaccess_common(clk, addr, attr, size, width, stream_width),
    ret |-> SizeofBusaccess ]

\* rp_encode_interrupt: header, timestamp, vector, line, val
rp_encode_interrupt(id, dev, clk, line, vector, val) ==
  [ pkt |-> rp_encode_hdr(RP_CMD_interrupt, id, dev, SizeofInterrupt - SizeofHdr, 0)
              \o Be64(clk) \o Be64(vector) \o Be32(line) \o << val % 256 >>,
    ret |-> SizeofInterrupt ]

\* rp_decode_hdr on the bytes of a packet
DecodeHdr(b) ==
  [ cmd   |-> be32_to_cpu(SubSeq(b, 1, 4)),
    len   |-> be32_to_cpu(SubSeq(b, 5, 8)),
    id    |-> be32_to_cpu(SubSeq(b, 9, 12)),
    flags |-> be32_to_cpu(SubSeq(b, 13, 16)),
    dev   |-> be32_to_cpu(SubSeq(b, 17, 20)) ]

\* rp_decode_payload on the bytes of a bus-access packet
DecodeBusaccess(b) ==
  [ timestamp    |-> be64_to_cpu(SubSeq(b, 21, 28)),
    attributes   |-> be64_to_cpu(SubSeq(b, 29, 36)),
    addr         |-> be64_to_cpu(SubSeq(b, 37, 44)),
    len          |-> be32_to_cpu(SubSeq(b, 45, 48)),
    width        |-> be32_to_cpu(SubSeq(b, 49, 52)),
    stream_width |-> be32_to_cpu(SubSeq(b, 53, 56)) ]

\* rp_decode_payload on the bytes of an interrupt packet
DecodeInterrupt(b) ==
  [ timestamp |-> be64_to_cpu(SubSeq(b, 21, 28)),
    vector    |-> be64_to_cpu(SubSeq(b, 29, 36)),
    line      |-> be32_to_cpu(SubSeq(b, 37, 40)),
    val       |-> b[41] ]

\* the bytes after the bus-access packet
TrailingData(b) == SubSeq(b, SizeofBusaccess + 1, Len(b))

IsBusRequest(b) ==
  /\ Len(b) >= SizeofBusaccess
  /\ DecodeHdr(b).cmd \in {RP_CMD_read, RP_CMD_write}
  /\ DecodeHdr(b).flags = 0

\* the bus requests among the packets of a transport, in transmission order
BusRequests(w) == SelectSeq(w, IsBusRequest)

\* ------------------------------------------------------------------- state
VARIABLES
  pc,               \* where each thread is in rp_io_read / rp_io_write
  frame,            \* each thread's arguments and locals
  current_id,       \* per adaptor: the id rp_new_id hands out next
  rsp_mutex,        \* per adaptor: the thread holding the response mutex, or None
  wire,             \* per adaptor: the buffers handed to rp_write, in order
  rspqueue,         \* per adaptor: the response buffer rp_wait_resp returns
  answered,         \* per adaptor: how many bus requests the peer has answered
  trace,            \* per adaptor: "req" at each request written, "rsp" at each response consumed
  vmclk,            \* the virtual clock
  peer_clk,         \* per adaptor: the peer clock rp_sync_vmclock tracks
  sync_timer,       \* per adaptor: how often rp_restart_sync_timer rolled the timer
  iothread,         \* the thread inside the execution context, or None
  aborted,          \* an assertion has failed: the process is gone
  gpio_current_id,  \* RemotePortGPIO.current_id
  gpio_call,        \* the arguments of the last rp_gpio_handler call
  ncalls,           \* rp_io_read / rp_io_write calls made so far
  ngpio,            \* rp_gpio_handler calls made so far
  mode,             \* which inputs are drawn: "conc" (callers race), "data" (one caller,
                    \* every size and value), "seq" (one caller, calls in sequence),
                    \* "slave" (inbound packets of every shape) or "live" (callers race
                    \* on one channel, the peer answers with the request's id)
  synclog,          \* per adaptor: the timestamps of the responses reconciled so far
  ninbound,         \* inbound packets dispatched so far
  slave,            \* rp_cmd_rw: the last request, requests handled, buffers not freed
  mem,              \* the address space the slave accesses (a window of it)
  gpio_in,          \* rp_gpio_interrupt: the last packet's line and val, calls so far
  gpio_out          \* the levels of the output lines gpio_out[0 .. num_gpios - 1]

\* the state of the inbound side
inbound == << ninbound, slave, mem, gpio_in, gpio_out >>

vars == << pc, frame, current_id, rsp_mutex, wire, rspqueue, answered, trace, vmclk,
           peer_clk, sync_timer, iothread, aborted, gpio_current_id, gpio_call,
           ncalls, ngpio, mode, synclog, inbound >>

\* ------------------------------------------------------------------ inputs
\* Racing callers draw few inputs; a single caller draws every size and value.
Sizes == IF mode = "data" THEN 1..8 ELSE {4}

Addrs == {4096}

\* the masters that are accessed
CalledMasters == IF mode = "conc" THEN Masters ELSE {m \in Masters : m.rp = 1 /\ m.rp_dev = 1}

\* Thread 1 runs inside the execution context (it holds the global resource when
\* it enters a callback); the other threads run outside it.
InContext == {1}

Callers == IF mode \in {"conc", "live"} THEN Threads ELSE {1}

CallLimit == IF mode \in {"data", "slave"} THEN 1 ELSE MaxCalls

\* the values written: 0x1234, 0xDDCCBBAA, 0x0807060504030201, all ones
Values == IF mode = "data"
          THEN { U64(4660),
                 << 170, 187, 204, 221, 0, 0, 0, 0 >>,
                 << 1, 2, 3, 4, 5, 6, 7, 8 >>,
                 [i \in 1..8 |-> 255] }
          ELSE { U64(4660) }

\* the data a peer answers a read with (the first len bytes are sent)
Patterns == IF mode = "data"
            THEN { << 170, 187, 204, 221, 17, 34, 51, 68 >>,
                   << 1, 2, 3, 4, 5, 6, 7, 8 >>,
                   << 52, 18, 0, 127, 0, 0, 0, 128 >> }
            ELSE { << 1, 2, 3, 4, 5, 6, 7, 8 >> }

\* The asynchronous events of a behaviour, besides the bus calls: clock ticks,
\* rp_gpio_handler calls and inbound packets.
Events == vmclk + ngpio + ninbound

\* how many of them happen: racing callers see one, the other modes as many as the
\* bounds of what they are about
EventLimit ==
  IF mode = "slave" THEN MaxInbound
  ELSE IF mode = "seq" THEN MaxGpio + 1
  ELSE IF mode = "data" THEN MaxGpio
  ELSE 1

\* the timestamps a peer puts in a response
PeerStamps == IF mode = "seq" THEN {480, 500} ELSE {5}

\* what a shift of an int by 32 or more bits yields: the count taken modulo 32
\* (x86), or zero (ARM)
ShiftOutcomes == {"mod32", "zero"}

NoRsp == [ valid |-> FALSE,
           hdr |-> [cmd |-> 0, len |-> 0, id |-> 0, flags |-> 0, dev |-> 0],
           busaccess |-> [timestamp |-> 0, attributes |-> 0, addr |-> 0, len |-> 0,
                          width |-> 0, stream_width |-> 0],
           data |-> << >> ]

NoFrame == [ dev |-> [rp |-> 1, rp_dev |-> 0, offset |-> 0], op |-> "none", addr |-> 0,
             size |-> 0, value |-> Zeros(8), held |-> FALSE, shift |-> "mod32",
             data |-> Zeros(8), clk |-> 0, id |-> 0, pay |-> << >>, len |-> 0,
             rsp |-> FALSE, got |-> 0, gotts |-> 0, ret |-> Zeros(8), rclk |-> 0, invals |-> 0,
             synced |-> << >>, restarts |-> 0 ]

\* no request handled yet
NoReq == [ cmd |-> 0, id |-> 0, dev |-> 0, flags |-> 0, timestamp |-> 0,
           attributes |-> Zeros(8), addr |-> 0, len |-> 0, width |-> 0,
           stream_width |-> 0, data |-> << >> ]

\* the size of the window of the address space that is modelled
MemSize == 8

\* the state after the devices are realized, drawing the inputs of mode m
Start(m) ==
  /\ pc = [t \in Threads |-> "idle"]
  /\ frame = [t \in Threads |-> NoFrame]
  /\ current_id = [a \in Adaptors |-> 0]
  /\ rsp_mutex = [a \in Adaptors |-> None]
  /\ wire = [a \in Adaptors |-> << >>]
  /\ rspqueue = [a \in Adaptors |-> NoRsp]
  /\ answered = [a \in Adaptors |-> 0]
  /\ trace = [a \in Adaptors |-> << >>]
  /\ vmclk = 0
  /\ peer_clk = [a \in Adaptors |-> 0]
  /\ sync_timer = [a \in Adaptors |-> 0]
  /\ iothread = None
  /\ aborted = FALSE
  /\ gpio_current_id = 0
  /\ gpio_call = [irq |-> 0, level |-> 0, clk |-> 0, n |-> 0]
  /\ ncalls = 0
  /\ ngpio = 0
  /\ mode = m
  /\ synclog = [a \in Adaptors |-> << >>]
  /\ ninbound = 0
  /\ slave = [req |-> NoReq, handled |-> 0, live |-> 0]
  /\ mem = [i \in 0..(MemSize - 1) |-> 17 * (i + 1)]
  /\ gpio_in = [line |-> 0, val |-> 0, n |-> 0]
  /\ gpio_out = [i \in 0..(NumGpios - 1) |-> 0]

Init == Start("conc")

\* the same machine with a single caller and the wide inputs
InitData == Start("data")

\* the same machine with a single caller making calls in sequence
InitSeq == Start("seq")

\* the same machine with inbound packets of every shape
InitSlave == Start("slave")

\* the same machine with callers racing on one channel and a responsive peer
InitLive == Start("live")

\* ------------------------------------------------- rp_io_read, rp_io_write
\* data[i] << (i * 8): data[i] is promoted to a 32-bit int, so the result is the 4
\* bytes of an int. A count of 32 or more is undefined: see ShiftOutcomes.
ShlInt(d, i, outcome) ==
  LET k == IF i < 4 THEN i ELSE IF outcome = "mod32" THEN i - 4 ELSE 4
  IN  [j \in 1..4 |-> IF j = k + 1 THEN d ELSE 0]

\* the conversion of an int to uint64_t: sign extension
IntToU64(b) == b \o (IF b[4] >= 128 THEN [j \in 1..4 |-> 255] ELSE Zeros(4))

RECURSIVE ReadLoop(_, _, _, _, _)
\* for (i = 0; i < size; i++) value |= data[i] << (i * 8);
ReadLoop(value, data, i, size, outcome) ==
  IF i >= size THEN value
  ELSE ReadLoop(Or64(value, IntToU64(ShlInt(data[i + 1], i, outcome))),
                data, i + 1, size, outcome)

\* for (i = 0; i < 8; i++) pay.data[i] = value >> (i * 8);
WriteData(value) == [i \in 1..8 |-> ToU8(Shr8(value, i - 1))]

\* (mutant) one response mutex for the whole machine
MutexOfMachine(dev) == 1

\* the adaptor whose response mutex a master takes: s->rp
MutexOf(dev) == dev.rp

\* (mutant) the trailing data is left out of the count
WriteCountNoData(len, size) == len

\* the number of bytes rp_io_write hands to rp_write
WriteCount(len, size) == len + size

\* the callback is entered, from inside the execution context (held) or not; a
\* write fills pay.data and asserts size <= 8
Call(t) ==
  /\ ~aborted /\ pc[t] = "idle" /\ ncalls < CallLimit /\ t \in Callers
  /\ \E dev \in CalledMasters, op \in {"read", "write"}, addr \in Addrs, size \in Sizes,
        value \in Values, held \in {t \in InContext}, outcome \in ShiftOutcomes :
       /\ op = "read" => value = U64(4660)
       /\ (op = "write" \/ size <= 4) => outcome = "mod32"
       /\ held => iothread = None
       /\ iothread' = IF held THEN t ELSE iothread
       /\ frame' = [frame EXCEPT ![t] =
            [NoFrame EXCEPT !.dev = dev, !.op = op, !.addr = addr, !.size = size,
                            !.value = IF op = "write" THEN value ELSE Zeros(8),
                            !.held = held, !.shift = outcome,
                            !.data = IF op = "write" THEN WriteData(value) ELSE Zeros(8)]]
  /\ pc' = [pc EXCEPT ![t] = "clk"]
  /\ ncalls' = ncalls + 1
  /\ UNCHANGED << current_id, rsp_mutex, wire, rspqueue, answered, trace, vmclk, peer_clk,
                  sync_timer, aborted, gpio_current_id, gpio_call, ngpio, mode,
                  synclog, inbound >>

\* rp_normalized_vmclk: the virtual clock less the peer's clk_base (0 here)
rp_normalized_vmclk(a) == vmclk

\* clk = rp_normalized_vmclk(s->rp);
GetClk(t) ==
  /\ ~aborted /\ pc[t] = "clk"
  /\ frame' = [frame EXCEPT ![t].clk = rp_normalized_vmclk(frame[t].dev.rp)]
  /\ pc' = [pc EXCEPT ![t] = "newid"]
  /\ UNCHANGED << current_id, rsp_mutex, wire, rspqueue, answered, trace, vmclk, peer_clk,
                  sync_timer, iothread, aborted, gpio_current_id, gpio_call, ncalls, ngpio, mode,
                  synclog, inbound >>

\* id = rp_new_id(s->rp);
NewId(t) ==
  /\ ~aborted /\ pc[t] = "newid"
  /\ frame' = [frame EXCEPT ![t].id = current_id[frame[t].dev.rp]]
  /\ current_id' = [current_id EXCEPT ![frame[t].dev.rp] = @ + 1]
  /\ pc' = [pc EXCEPT ![t] = "encode"]
  /\ UNCHANGED << rsp_mutex, wire, rspqueue, answered, trace, vmclk, peer_clk,
                  sync_timer, iothread, aborted, gpio_current_id, gpio_call, ncalls, ngpio, mode,
                  synclog, inbound >>

\* (mutant) the read request asks for beats as wide as the access
ReadRequestBeat(f) ==
  rp_encode_read(f.id, f.dev.rp_dev, f.clk, f.addr + f.dev.offset, 0, f.size, f.size, f.size)

\* the request rp_io_read encodes
ReadRequest(f) ==
  rp_encode_read(f.id, f.dev.rp_dev, f.clk, f.addr + f.dev.offset, 0, f.size, 0, f.size)

\* the request rp_io_write encodes
WriteRequest(f) ==
  rp_encode_write(f.id, f.dev.rp_dev, f.clk, f.addr + f.dev.offset, 0, f.size, 0, f.size)

\* len = rp_encode_read(...) / rp_encode_write(...); pay is the packet followed by
\* data[8]
Encode(t) ==
  /\ ~aborted /\ pc[t] = "encode"
  /\ LET f == frame[t]
         e == IF f.op = "read" THEN ReadRequest(f) ELSE WriteRequest(f)
     IN  frame' = [frame EXCEPT ![t].pay = e.pkt \o f.data, ![t].len = e.ret]
  /\ pc' = [pc EXCEPT ![t] = "lock"]
  /\ UNCHANGED << current_id, rsp_mutex, wire, rspqueue, answered, trace, vmclk, peer_clk,
                  sync_timer, iothread, aborted, gpio_current_id, gpio_call, ncalls, ngpio, mode,
                  synclog, inbound >>

\* (mutant) the request is sent without waiting for the response mutex
LockNoWait(t) ==
  /\ ~aborted /\ pc[t] = "lock"
  /\ rsp_mutex' = [rsp_mutex EXCEPT ![MutexOf(frame[t].dev)] = t]
  /\ pc' = [pc EXCEPT ![t] = "write"]
  /\ UNCHANGED << frame, current_id, wire, rspqueue, answered, trace, vmclk, peer_clk,
                  sync_timer, iothread, aborted, gpio_current_id, gpio_call, ncalls, ngpio, mode,
                  synclog, inbound >>

\* rp_rsp_mutex_lock(s->rp);
Lock(t) ==
  /\ ~aborted /\ pc[t] = "lock"
  /\ rsp_mutex[MutexOf(frame[t].dev)] = None
  /\ rsp_mutex' = [rsp_mutex EXCEPT ![MutexOf(frame[t].dev)] = t]
  /\ pc' = [pc EXCEPT ![t] = "write"]
  /\ UNCHANGED << frame, current_id, wire, rspqueue, answered, trace, vmclk, peer_clk,
                  sync_timer, iothread, aborted, gpio_current_id, gpio_call, ncalls, ngpio, mode,
                  synclog, inbound >>

\* (mutant) the request is written and the response is not waited for
WriteNoWait(t) ==
  /\ ~aborted /\ pc[t] = "write"
  /\ LET f == frame[t]
         count == IF f.op = "read" THEN f.len ELSE WriteCount(f.len, f.size)
     IN  /\ wire' = [wire EXCEPT ![f.dev.rp] = Append(@, SubSeq(f.pay, 1, count))]
         /\ trace' = [trace EXCEPT ![f.dev.rp] = Append(@, "req")]
  /\ pc' = [pc EXCEPT ![t] = "extract"]
  /\ UNCHANGED << frame, current_id, rsp_mutex, rspqueue, answered, vmclk, peer_clk,
                  sync_timer, iothread, aborted, gpio_current_id, gpio_call, ncalls, ngpio, mode,
                  synclog, inbound >>

\* rp_write(s->rp, &pkt, len); / rp_write(s->rp, &pay, len + size);
Write(t) ==
  /\ ~aborted /\ pc[t] = "write"
  /\ LET f == frame[t]
         count == IF f.op = "read" THEN f.len ELSE WriteCount(f.len, f.size)
     IN  /\ wire' = [wire EXCEPT ![f.dev.rp] = Append(@, SubSeq(f.pay, 1, count))]
         /\ trace' = [trace EXCEPT ![f.dev.rp] = Append(@, "req")]
  /\ pc' = [pc EXCEPT ![t] = "wait"]
  /\ UNCHANGED << frame, current_id, rsp_mutex, rspqueue, answered, vmclk, peer_clk,
                  sync_timer, iothread, aborted, gpio_current_id, gpio_call, ncalls, ngpio, mode,
                  synclog, inbound >>

\* rp_wait_resp, no response yet: the thread leaves the execution context and blocks
WaitBlock(t) ==
  /\ ~aborted /\ pc[t] = "wait"
  /\ ~rspqueue[frame[t].dev.rp].valid
  /\ iothread' = IF iothread = t THEN None ELSE iothread
  /\ pc' = [pc EXCEPT ![t] = "blocked"]
  /\ UNCHANGED << frame, current_id, rsp_mutex, wire, rspqueue, answered, trace, vmclk,
                  peer_clk, sync_timer, aborted, gpio_current_id, gpio_call, ncalls, ngpio, mode,
                  synclog, inbound >>

\* rp_wait_resp returns the response buffer; a thread that left the execution
\* context enters it again first
WaitResp(t) ==
  /\ ~aborted /\ pc[t] \in {"wait", "blocked"}
  /\ rspqueue[frame[t].dev.rp].valid
  /\ IF pc[t] = "blocked" /\ frame[t].held
       THEN iothread = None /\ iothread' = t
       ELSE UNCHANGED iothread
  /\ frame' = [frame EXCEPT ![t].rsp = TRUE, ![t].got = rspqueue[frame[t].dev.rp].hdr.id,
                             ![t].gotts = rspqueue[frame[t].dev.rp].busaccess.timestamp]
  /\ trace' = [trace EXCEPT ![frame[t].dev.rp] = Append(@, "rsp")]
  /\ pc' = [pc EXCEPT ![t] = "assert"]
  /\ UNCHANGED << current_id, rsp_mutex, wire, rspqueue, answered, vmclk, peer_clk,
                  sync_timer, aborted, gpio_current_id, gpio_call, ncalls, ngpio, mode,
                  synclog, inbound >>

\* rsp.pkt->hdr.id == be32_to_cpu(pkt.hdr.id)
IdMatches(t) ==
  rspqueue[frame[t].dev.rp].hdr.id = be32_to_cpu(SubSeq(frame[t].pay, 9, 12))

\* (mutant) the assertion is compiled out
AssertIdOff(t) ==
  /\ ~aborted /\ pc[t] = "assert"
  /\ pc' = [pc EXCEPT ![t] = "extract"]
  /\ UNCHANGED << frame, current_id, rsp_mutex, wire, rspqueue, answered, trace, vmclk,
                  peer_clk, sync_timer, iothread, aborted, gpio_current_id, gpio_call,
                  ncalls, ngpio, mode,
                  synclog, inbound >>

\* assert(rsp.pkt->hdr.id == be32_to_cpu(pkt.hdr.id));
AssertId(t) ==
  /\ ~aborted /\ pc[t] = "assert"
  /\ IF IdMatches(t)
       THEN pc' = [pc EXCEPT ![t] = "extract"] /\ UNCHANGED aborted
       ELSE pc' = [pc EXCEPT ![t] = "aborted"] /\ aborted' = TRUE
  /\ UNCHANGED << frame, current_id, rsp_mutex, wire, rspqueue, answered, trace, vmclk,
                  peer_clk, sync_timer, iothread, gpio_current_id, gpio_call, ncalls, ngpio, mode,
                  synclog, inbound >>

\* (mutant) the timestamp of the response is not read
RspTimestampNone(r) == 0

\* rsp.pkt->busaccess.timestamp
RspTimestamp(r) == r.busaccess.timestamp

\* the read loop over rp_busaccess_dataptr(&rsp.pkt->busaccess), then
\* rclk = rsp.pkt->busaccess.timestamp;
Extract(t) ==
  /\ ~aborted /\ pc[t] = "extract"
  /\ LET f == frame[t]
         r == rspqueue[f.dev.rp]
     IN  frame' = [frame EXCEPT
           ![t].ret = IF f.op = "read" THEN ReadLoop(Zeros(8), r.data, 0, f.size, f.shift)
                      ELSE @,
           ![t].rclk = RspTimestamp(r)]
  /\ pc' = [pc EXCEPT ![t] = "invalidate"]
  /\ UNCHANGED << current_id, rsp_mutex, wire, rspqueue, answered, trace, vmclk, peer_clk,
                  sync_timer, iothread, aborted, gpio_current_id, gpio_call, ncalls, ngpio, mode,
                  synclog, inbound >>

\* (mutant) the response buffer is left valid
InvalidateSkip(t) ==
  /\ ~aborted /\ pc[t] = "invalidate"
  /\ pc' = [pc EXCEPT ![t] = "unlock"]
  /\ UNCHANGED << frame, rspqueue, current_id, rsp_mutex, wire, answered, trace, vmclk, peer_clk,
                  sync_timer, iothread, aborted, gpio_current_id, gpio_call, ncalls, ngpio, mode,
                  synclog, inbound >>

\* rp_dpkt_invalidate(&rsp);
Invalidate(t) ==
  /\ ~aborted /\ pc[t] = "invalidate"
  /\ rspqueue' = [rspqueue EXCEPT ![frame[t].dev.rp].valid = FALSE]
  /\ frame' = [frame EXCEPT ![t].invals = @ + 1]
  /\ pc' = [pc EXCEPT ![t] = "unlock"]
  /\ UNCHANGED << current_id, rsp_mutex, wire, answered, trace, vmclk, peer_clk,
                  sync_timer, iothread, aborted, gpio_current_id, gpio_call, ncalls, ngpio, mode,
                  synclog, inbound >>

\* (mutant) the mutex is still held when the clocks are reconciled
UnlockLate(t) ==
  /\ ~aborted /\ pc[t] = "unlock"
  /\ pc' = [pc EXCEPT ![t] = "sync"]
  /\ UNCHANGED << frame, current_id, rsp_mutex, wire, rspqueue, answered, trace, vmclk,
                  peer_clk, sync_timer, iothread, aborted, gpio_current_id, gpio_call,
                  ncalls, ngpio, mode,
                  synclog, inbound >>

\* rp_rsp_mutex_unlock(s->rp);
Unlock(t) ==
  /\ ~aborted /\ pc[t] = "unlock"
  /\ rsp_mutex' = [rsp_mutex EXCEPT ![MutexOf(frame[t].dev)] = None]
  /\ pc' = [pc EXCEPT ![t] = "sync"]
  /\ UNCHANGED << frame, current_id, wire, rspqueue, answered, trace, vmclk, peer_clk,
                  sync_timer, iothread, aborted, gpio_current_id, gpio_call, ncalls, ngpio, mode,
                  synclog, inbound >>

\* (mutant) the arguments of rp_sync_vmclock the other way round
SyncArgsSwapped(f) == << f.rclk, f.clk >>

\* the arguments rp_sync_vmclock is called with: clk, rclk
SyncArgs(f) == << f.clk, f.rclk >>

\* rp_sync_vmclock(s->rp, clk, rclk): the tracked peer clock never goes back
Sync(t) ==
  /\ ~aborted /\ pc[t] = "sync"
  /\ LET f == frame[t]
         rclk == SyncArgs(f)[2]
     IN  /\ peer_clk' = [peer_clk EXCEPT ![f.dev.rp] = IF rclk > @ THEN rclk ELSE @]
         /\ frame' = [frame EXCEPT ![t].synced = Append(@, SyncArgs(f))]
         /\ synclog' = [synclog EXCEPT ![f.dev.rp] = Append(@, f.gotts)]
  /\ pc' = [pc EXCEPT ![t] = "restart"]
  /\ UNCHANGED << current_id, rsp_mutex, wire, rspqueue, answered, trace, vmclk,
                  sync_timer, iothread, aborted, gpio_current_id, gpio_call, ncalls, ngpio, mode,
                  inbound >>

\* rp_restart_sync_timer(s->rp);
Restart(t) ==
  /\ ~aborted /\ pc[t] = "restart"
  /\ sync_timer' = [sync_timer EXCEPT ![frame[t].dev.rp] = @ + 1]
  /\ frame' = [frame EXCEPT ![t].restarts = @ + 1]
  /\ pc' = [pc EXCEPT ![t] = "leave"]
  /\ UNCHANGED << current_id, rsp_mutex, wire, rspqueue, answered, trace, vmclk, peer_clk,
                  iothread, aborted, gpio_current_id, gpio_call, ncalls, ngpio, mode,
                  synclog, inbound >>

\* rp_leave_iothread(s->rp);
Leave(t) ==
  /\ ~aborted /\ pc[t] = "leave"
  /\ iothread' = IF iothread = t THEN None ELSE iothread
  /\ pc' = [pc EXCEPT ![t] = "done"]
  /\ UNCHANGED << frame, current_id, rsp_mutex, wire, rspqueue, answered, trace, vmclk,
                  peer_clk, sync_timer, aborted, gpio_current_id, gpio_call, ncalls, ngpio, mode,
                  synclog, inbound >>

\* return value; / the end of rp_io_write: the caller has the result
Return(t) ==
  /\ ~aborted /\ pc[t] = "done"
  /\ pc' = [pc EXCEPT ![t] = "idle"]
  /\ frame' = [frame EXCEPT ![t] = NoFrame]
  /\ UNCHANGED << current_id, rsp_mutex, wire, rspqueue, answered, trace, vmclk, peer_clk,
                  sync_timer, iothread, aborted, gpio_current_id, gpio_call, ncalls, ngpio, mode,
                  synclog, inbound >>

\* ---------------------------------------------------------------- the peer
\* the ids a peer may put in the response to a request with this id: a responsive
\* peer answers with the same id, a faulty one may answer with another
PeerIds(id) == IF mode = "live" THEN {id} ELSE {id, id + 1}

\* The peer answers the oldest bus request it has not answered yet: a response
\* with the request's fields, its own timestamp, for a read len bytes of data, and
\* the request's id or, a faulty peer, another one.
PeerRespond(a) ==
  /\ ~aborted
  /\ answered[a] < Len(BusRequests(wire[a]))
  /\ ~rspqueue[a].valid
  /\ LET req == BusRequests(wire[a])[answered[a] + 1]
         h == DecodeHdr(req)
         b == DecodeBusaccess(req)
     IN  \E rid \in PeerIds(h.id), ts \in PeerStamps, d \in Patterns :
           /\ h.cmd = RP_CMD_write => d = << 1, 2, 3, 4, 5, 6, 7, 8 >>
           /\ rspqueue' = [rspqueue EXCEPT ![a] =
                [ valid |-> TRUE,
                  hdr |-> [ cmd |-> h.cmd,
                            len |-> SizeofBusaccess - SizeofHdr
                                      + (IF h.cmd = RP_CMD_read THEN b.len ELSE 0),
                            id |-> rid, flags |-> RP_PKT_FLAGS_response, dev |-> h.dev ],
                  busaccess |-> [b EXCEPT !.timestamp = ts],
                  data |-> IF h.cmd = RP_CMD_read THEN SubSeq(d, 1, b.len) ELSE << >> ]]
  /\ answered' = [answered EXCEPT ![a] = @ + 1]
  /\ UNCHANGED << pc, frame, current_id, rsp_mutex, wire, trace, vmclk, peer_clk,
                  sync_timer, iothread, aborted, gpio_current_id, gpio_call, ncalls, ngpio, mode,
                  synclog, inbound >>

\* the virtual clock advances
Tick ==
  /\ ~aborted /\ vmclk < MaxClk /\ Events < EventLimit
  /\ vmclk' = vmclk + 1
  /\ UNCHANGED << pc, frame, current_id, rsp_mutex, wire, rspqueue, answered, trace,
                  peer_clk, sync_timer, iothread, aborted, gpio_current_id, gpio_call,
                  ncalls, ngpio, mode,
                  synclog, inbound >>

\* --------------------------------------------------------- rp_gpio_handler
\* the interrupt lines and levels the handler is called with
Irqs == IF mode = "data" THEN {0, NumGpios - 1} ELSE {3}

Levels == IF mode = "data" THEN {0, 1} ELSE {1}

\* how many times the handler is called
GpioLimit == IF mode = "seq" THEN MaxGpio + 1 ELSE MaxGpio

\* (mutant) the id counter of the GPIO device is not advanced
GpioNextIdStuck(id) == id

\* s->current_id++
GpioNextId(id) == id + 1

\* the packet rp_gpio_handler encodes
InterruptPacket(id, dev, clk, irq, level) ==
  rp_encode_interrupt(id, dev, clk, irq, 0, level)

\* (mutant) the handler sends under the response mutex
rp_gpio_handler_locked ==
  /\ ~aborted /\ ngpio < GpioLimit /\ Events < EventLimit
  /\ rsp_mutex[Gpio.rp] = None
  /\ \E irq \in Irqs, level \in Levels :
       LET clk == rp_normalized_vmclk(Gpio.rp)
           e == InterruptPacket(gpio_current_id, Gpio.rp_dev, clk, irq, level)
       IN  /\ wire' = [wire EXCEPT ![Gpio.rp] = Append(@, SubSeq(e.pkt, 1, e.ret))]
           /\ gpio_call' = [irq |-> irq, level |-> level, clk |-> clk, n |-> ngpio + 1]
  /\ gpio_current_id' = GpioNextId(gpio_current_id)
  /\ ngpio' = ngpio + 1
  /\ UNCHANGED << pc, frame, current_id, rsp_mutex, rspqueue, answered, trace, vmclk,
                  peer_clk, sync_timer, iothread, aborted, ncalls, mode,
                  synclog, inbound >>

\* len = rp_encode_interrupt(s->current_id++, ...); rp_write(s->rp, &pkt, len);
rp_gpio_handler ==
  /\ ~aborted /\ ngpio < GpioLimit /\ Events < EventLimit
  /\ \E irq \in Irqs, level \in Levels :
       LET clk == rp_normalized_vmclk(Gpio.rp)
           e == InterruptPacket(gpio_current_id, Gpio.rp_dev, clk, irq, level)
       IN  /\ wire' = [wire EXCEPT ![Gpio.rp] = Append(@, SubSeq(e.pkt, 1, e.ret))]
           /\ gpio_call' = [irq |-> irq, level |-> level, clk |-> clk, n |-> ngpio + 1]
  /\ gpio_current_id' = GpioNextId(gpio_current_id)
  /\ ngpio' = ngpio + 1
  /\ UNCHANGED << pc, frame, current_id, rsp_mutex, rspqueue, answered, trace, vmclk,
                  peer_clk, sync_timer, iothread, aborted, ncalls, mode,
                  synclog, inbound >>

\* --------------------------------------------------------------- rp_cmd_rw
\* The memory slave, on adaptor 2.
Slave == [rp |-> 2]

\* how many inbound packets are dispatched
InboundLimit == IF mode = "slave" THEN MaxInbound ELSE 1

\* an inbound bus request as rp_cmd_rw gets it, decoded; a write carries len bytes
Request(cmd, flags, attr, len, width, stream_width) ==
  [ cmd |-> cmd, id |-> 9, dev |-> 3, flags |-> flags, timestamp |-> 7,
    attributes |-> attr, addr |-> 2, len |-> len, width |-> width,
    stream_width |-> stream_width,
    data |-> IF cmd = RP_CMD_write THEN [i \in 1..len |-> 160 + i] ELSE << >> ]

\* a request sent by a master, as the slave it is connected to gets it
DecodeRequest(b) ==
  [ cmd |-> DecodeHdr(b).cmd, id |-> DecodeHdr(b).id, dev |-> DecodeHdr(b).dev,
    flags |-> DecodeHdr(b).flags, timestamp |-> DecodeBusaccess(b).timestamp,
    attributes |-> U64(DecodeBusaccess(b).attributes), addr |-> DecodeBusaccess(b).addr,
    len |-> DecodeBusaccess(b).len, width |-> DecodeBusaccess(b).width,
    stream_width |-> DecodeBusaccess(b).stream_width, data |-> TrailingData(b) ]

\* The requests the peer sends: of every shape; or those of a master of this
\* machine (a master connected to a slave); or one well-formed read.
InboundRequests ==
  IF mode = "slave"
    THEN { Request(cmd, flags, attr, len, width, IF incr THEN len ELSE 8) :
             cmd \in {RP_CMD_read, RP_CMD_write}, flags \in {0, RP_PKT_FLAGS_response},
             attr \in {Zeros(8), << 1, 0, 0, 0, 1, 0, 0, 0 >>}, len \in {1, 4},
             width \in {0, 4}, incr \in BOOLEAN }
  ELSE IF mode = "data"
    THEN { DecodeRequest(BusRequests(wire[1])[i]) : i \in 1..Len(BusRequests(wire[1])) }
  ELSE { Request(RP_CMD_read, 0, Zeros(8), 4, 0, 4) }

\* (mutant) no request is rejected
RequestAcceptedAny(p) == TRUE

\* the three assertions on the request
RequestAccepted(p) ==
  /\ p.width = 0
  /\ p.stream_width = p.len
  /\ (p.flags \div RP_PKT_FLAGS_response) % 2 = 0

\* a uint64_t passed for a uint32_t parameter (the low word, below 2^31)
ToU32(v) == ((v[4] * 256 + v[3]) * 256 + v[2]) * 256 + v[1]

\* rp_encode_read_resp: hdr.len and the return value count the trailing data
rp_encode_read_resp(id, dev, clk, addr, attr, size, width, stream_width) ==
  [ pkt |-> rp_encode_hdr(RP_CMD_read, id, dev, SizeofBusaccess - SizeofHdr + size,
                          RP_PKT_FLAGS_response)
              \o rp_encode_busaccess_common(clk, addr, attr, size, width, stream_width),
    ret |-> SizeofBusaccess + size ]

\* rp_encode_write_resp: no trailing data
rp_encode_write_resp(id, dev, clk, addr, attr, size, width, stream_width) ==
  [ pkt |-> rp_encode_hdr(RP_CMD_write, id, dev, SizeofBusaccess - SizeofHdr,
                          RP_PKT_FLAGS_response)
              \o rp_encode_busaccess_common(clk, addr, attr, size, width, stream_width),
    ret |-> SizeofBusaccess ]

\* dma_memory_rw(..., DMA_DIRECTION_TO_DEVICE): len bytes read from memory
MemRead(addr, len) == [i \in 1..len |-> mem[(addr + i - 1) % MemSize]]

\* dma_memory_rw(..., DMA_DIRECTION_FROM_DEVICE): len bytes of data written to memory
MemWrite(addr, data, len) ==
  [k \in 0..(MemSize - 1) |->
     IF \E i \in 1..len : (addr + i - 1) % MemSize = k
       THEN data[CHOOSE i \in 1..len : (addr + i - 1) % MemSize = k]
       ELSE mem[k]]

\* the buffers allocated and not freed when rp_cmd_rw returns: rsp is a local,
\* rp_dpkt_alloc gives it a buffer, and nothing frees it
DpktLiveAfter(live) == live + 1

\* rp_cmd_rw, called by rp_memory_master_read (DMA_DIRECTION_TO_DEVICE) and
\* rp_memory_master_write (DMA_DIRECTION_FROM_DEVICE)
rp_cmd_rw(p) ==
  /\ ~aborted /\ ninbound < InboundLimit /\ Events < EventLimit
  /\ ninbound' = ninbound + 1
  /\ LET to_device == p.cmd = RP_CMD_read
         pktlen == SizeofBusaccess + (IF to_device THEN p.len ELSE 0)
         delay == 0
         e == IF to_device
                THEN rp_encode_read_resp(p.id, p.dev, p.timestamp + delay, p.addr,
                                         ToU32(p.attributes), p.len, p.width, p.stream_width)
                ELSE rp_encode_write_resp(p.id, p.dev, p.timestamp + delay, p.addr,
                                          ToU32(p.attributes), p.len, p.width, p.stream_width)
         data == IF to_device THEN MemRead(p.addr, p.len) ELSE << >>
     IN  IF ~RequestAccepted(p)
           THEN /\ aborted' = TRUE
                /\ slave' = [slave EXCEPT !.req = p, !.handled = @ + 1]
                /\ UNCHANGED << mem, wire >>
           ELSE /\ slave' = [req |-> p, handled |-> slave.handled + 1,
                             live |-> DpktLiveAfter(slave.live)]
                /\ mem' = IF to_device THEN mem ELSE MemWrite(p.addr, p.data, p.len)
                /\ IF e.ret = pktlen
                     THEN /\ wire' = [wire EXCEPT ![Slave.rp] =
                                        Append(@, SubSeq(e.pkt \o data, 1, pktlen))]
                          /\ UNCHANGED aborted
                     ELSE aborted' = TRUE /\ UNCHANGED wire
  /\ UNCHANGED << pc, frame, current_id, rsp_mutex, rspqueue, answered, trace, vmclk, peer_clk,
                  sync_timer, iothread, gpio_current_id, gpio_call, ncalls, ngpio, mode,
                  synclog, gpio_in, gpio_out >>

\* ------------------------------------------------------- rp_gpio_interrupt
\* the line and val fields of the interrupt packets the peer sends
InLines == IF mode = "slave" THEN {0, NumGpios - 1, NumGpios, 65536} ELSE {3}

InVals == {1}

\* what indexing gpio_out past its end leads to: the process dies, or it goes on
\* after a stray access
OutOfBounds == {"crash", "stray"}

\* qemu_set_irq(rpg->gpio_out[pkt->interrupt.line], pkt->interrupt.val);
rp_gpio_interrupt(line, val, outcome) ==
  /\ ~aborted /\ ninbound < InboundLimit /\ Events < EventLimit
  /\ ninbound' = ninbound + 1
  /\ gpio_in' = [line |-> line, val |-> val, n |-> gpio_in.n + 1]
  /\ IF line < Gpio.num_gpios
       THEN /\ outcome = "stray"
            /\ gpio_out' = [gpio_out EXCEPT ![line] = val]
            /\ UNCHANGED aborted
       ELSE /\ aborted' = (outcome = "crash")
            /\ UNCHANGED gpio_out
  /\ UNCHANGED << pc, frame, current_id, rsp_mutex, wire, rspqueue, answered, trace, vmclk,
                  peer_clk, sync_timer, iothread, gpio_current_id, gpio_call, ncalls, ngpio,
                  mode, synclog, slave, mem >>

\* ------------------------------------------------------- the specification
Next ==
  \/ \E t \in Threads : Call(t)
  \/ \E t \in Threads : GetClk(t)
  \/ \E t \in Threads : NewId(t)
  \/ \E t \in Threads : Encode(t)
  \/ \E t \in Threads : Lock(t)
  \/ \E t \in Threads : Write(t)
  \/ \E t \in Threads : WaitBlock(t)
  \/ \E t \in Threads : WaitResp(t)
  \/ \E t \in Threads : AssertId(t)
  \/ \E t \in Threads : Extract(t)
  \/ \E t \in Threads : Invalidate(t)
  \/ \E t \in Threads : Unlock(t)
  \/ \E t \in Threads : Sync(t)
  \/ \E t \in Threads : Restart(t)
  \/ \E t \in Threads : Leave(t)
  \/ \E t \in Threads : Return(t)
  \/ \E a \in Adaptors : PeerRespond(a)
  \/ Tick
  \/ rp_gpio_handler
  \/ \E p \in InboundRequests : rp_cmd_rw(p)
  \/ \E line \in InLines, val \in InVals, outcome \in OutOfBounds :
       rp_gpio_interrupt(line, val, outcome)

Spec == Init /\ [][Next]_vars

SpecData == InitData /\ [][Next]_vars

SpecSeq == InitSeq /\ [][Next]_vars

SpecSlave == InitSlave /\ [][Next]_vars

\* the steps of a call that is under way, rp_rsp_mutex_lock apart: the scheduler
\* lets a thread that can run take its next step
Step(t) ==
  \/ GetClk(t) \/ NewId(t) \/ Encode(t) \/ Write(t) \/ WaitBlock(t) \/ WaitResp(t)
  \/ AssertId(t) \/ Extract(t) \/ Invalidate(t) \/ Unlock(t) \/ Sync(t) \/ Restart(t)
  \/ Leave(t) \/ Return(t)

\* A fair scheduler (a thread that can take a step takes it), a fair mutex (a
\* thread that finds the mutex free again and again gets it) and a responsive peer
\* (a request that is waiting for its answer gets it). Nothing forces a call, a
\* clock tick, an interrupt or an inbound packet to happen.
Fairness ==
  /\ \A t \in Threads : WF_vars(Step(t))
  /\ \A t \in Threads : SF_vars(Lock(t))
  /\ \A a \in Adaptors : WF_vars(PeerRespond(a))

SpecLive == InitLive /\ [][Next]_vars /\ Fairness

\* ------------------------------------------------------------- properties
\* the pcs at which a thread is between rp_rsp_mutex_lock and rp_rsp_mutex_unlock
Locked == {"write", "wait", "blocked", "assert", "aborted", "extract", "invalidate", "unlock"}

\* the pcs after rp_rsp_mutex_unlock
Unlocked == {"sync", "restart", "leave", "done"}

Alternates(tr) == \A i \in 1..Len(tr) : tr[i] = IF i % 2 = 1 THEN "req" ELSE "rsp"

Count(tr, x) == Cardinality({i \in 1..Len(tr) : tr[i] = x})

\* C1: on every adaptor at most one bus request has been written without its
\* response having been consumed, and requests and responses strictly alternate,
\* however the callers interleave.
SingleOutstanding ==
  \A a \in Adaptors :
    /\ Alternates(trace[a])
    /\ Count(trace[a], "req") = Len(BusRequests(wire[a]))
    /\ Len(BusRequests(wire[a])) - Count(trace[a], "rsp") \in {0, 1}

\* C1 witness: two callers raced on one adaptor; the second request went out only
\* after the first response was consumed.
SingleOutstandingWitness ==
  \E a \in Adaptors, t, u \in Threads :
    /\ t /= u /\ frame[t].dev.rp = a /\ frame[u].dev.rp = a
    /\ pc[t] = "blocked" /\ pc[u] \in Unlocked
    /\ trace[a] = << "req", "rsp", "req" >>

\* C2: a response whose id differs from the request's ends the operation at the
\* assertion: nothing is extracted from it, rp_sync_vmclock is not called, and the
\* call does not return.
ResponseCorrelation ==
  \A t \in Threads :
    (frame[t].rsp /\ frame[t].got /= frame[t].id) =>
      /\ pc[t] \in {"assert", "aborted"}
      /\ pc[t] = "aborted" => aborted
      /\ frame[t].ret = Zeros(8) /\ frame[t].rclk = 0
      /\ frame[t].synced = << >> /\ frame[t].restarts = 0

\* C2 witness: a mismatching response has been received and the assertion failed.
ResponseCorrelationWitness ==
  \E t \in Threads :
    pc[t] = "aborted" /\ frame[t].rsp /\ frame[t].got = frame[t].id + 1

\* the little-endian value of the first size bytes of d, as a uint64_t
LittleEndian(d, size) == [i \in 1..8 |-> IF i <= size THEN d[i] ELSE 0]

\* C3: rp_io_read returns the little-endian value of the size trailing data bytes
\* of the response, with every bit above bit 8 * size - 1 zero.
ReadValueLittleEndian ==
  \A t \in Threads :
    (pc[t] = "invalidate" /\ frame[t].op = "read") =>
      frame[t].ret = LittleEndian(rspqueue[frame[t].dev.rp].data, frame[t].size)

\* the last bus request on the transport of the adaptor t's master is attached to
LastRequest(t) ==
  LET r == BusRequests(wire[frame[t].dev.rp]) IN r[Len(r)]

\* C4: rp_io_write hands rp_write the encoded bus-access packet followed by exactly
\* size bytes of data, byte i being (value >> 8 * i) & 0xFF, and the packet's len
\* field is size.
WritePayload ==
  \A t \in Threads :
    (frame[t].op = "write" /\ pc[t] \in {"wait", "blocked"}) =>
      LET f == frame[t]
          b == LastRequest(t)
      IN  /\ Len(b) = SizeofBusaccess + f.size
          /\ DecodeHdr(b) = [cmd |-> RP_CMD_write, len |-> SizeofBusaccess - SizeofHdr + f.size,
                             id |-> f.id, flags |-> 0, dev |-> f.dev.rp_dev]
          /\ DecodeBusaccess(b) = [timestamp |-> f.clk, attributes |-> 0,
                                   addr |-> f.addr + f.dev.offset, len |-> f.size,
                                   width |-> 0, stream_width |-> f.size]
          /\ TrailingData(b) = [i \in 1..f.size |-> f.value[i]]
          /\ f.value = U64(4660) =>
               \A i \in 1..f.size :
                 TrailingData(b)[i] = IF i <= 3 THEN (4660 \div (256 ^ (i - 1))) % 256 ELSE 0

\* C4 witness: the 2-byte write of 0x1234 has been sent with data {0x34, 0x12}.
WritePayloadWitness ==
  \E t \in Threads :
    /\ frame[t].op = "write" /\ pc[t] = "blocked"
    /\ frame[t].size = 2 /\ frame[t].value = U64(4660)
    /\ TrailingData(LastRequest(t)) = << 52, 18 >>
    /\ DecodeBusaccess(LastRequest(t)).len = 2

IdAdvancedUnderMutex ==
  [][\A a \in Adaptors :
       current_id'[a] /= current_id[a] =>
         \E t \in Threads : pc[t] = "newid" /\ pc'[t] = "encode" /\ rsp_mutex[a] = t]_vars

\* t is at rp_rsp_mutex_lock and cannot take the mutex
BlockedAtLock(t) == ~aborted /\ pc[t] = "lock" /\ ~ENABLED Lock(t)

\* C7, as claimed: a caller waiting for a response on one channel never keeps a
\* caller on another channel (another rp_dev, or another adaptor) from taking its
\* mutex.
ChannelIndependence ==
  \A t, u \in Threads :
    (/\ BlockedAtLock(t) /\ pc[u] \in {"wait", "blocked"}
     /\ rsp_mutex[MutexOf(frame[t].dev)] = u)
      => (frame[u].dev.rp = frame[t].dev.rp /\ frame[u].dev.rp_dev = frame[t].dev.rp_dev)

\* C7, amended: callers on masters of different adaptors are independent: a caller
\* at rp_rsp_mutex_lock is kept out only by a thread whose master is attached to
\* the same adaptor (whatever its rp_dev).
AdaptorIndependence ==
  \A t \in Threads :
    BlockedAtLock(t) =>
      \E u \in Threads \ {t} :
        /\ rsp_mutex[frame[t].dev.rp] = u
        /\ pc[u] \in Locked
        /\ frame[u].dev.rp = frame[t].dev.rp

\* C7 witness: a caller on adaptor 2 can take its mutex while a caller on adaptor 1
\* is blocked waiting for a response.
AdaptorIndependenceWitness ==
  \E t, u \in Threads :
    /\ pc[u] = "blocked" /\ frame[u].dev.rp = 1
    /\ pc[t] = "lock" /\ frame[t].dev.rp = 2 /\ ENABLED Lock(t)

\* the ids of the bus requests on a transport, in transmission order
RequestIds(w) == [i \in 1..Len(BusRequests(w)) |-> DecodeHdr(BusRequests(w)[i]).id]

\* C8: the ids of the bus requests written to an adaptor's transport are strictly
\* increasing in transmission order, and the outstanding request's id differs from
\* the id of every other request.
MonotonicRequestIds ==
  /\ \A a \in Adaptors :
       \A i, j \in 1..Len(RequestIds(wire[a])) :
         i < j => RequestIds(wire[a])[i] < RequestIds(wire[a])[j]
  /\ \A t, u \in Threads :
       (/\ t /= u /\ frame[t].dev.rp = frame[u].dev.rp
        /\ pc[t] \in {"write", "wait", "blocked"}
        /\ pc[u] \in {"encode", "lock"}) => frame[t].id /= frame[u].id

IsInterrupt(b) == DecodeHdr(b).cmd = RP_CMD_interrupt

Interrupts(w) == SelectSeq(w, IsInterrupt)

\* C9: every call of rp_gpio_handler can go ahead whatever the state of the
\* response mutex and of the response queue, and writes exactly one interrupt
\* packet with line = irq, vector = 0, val = level and the normalized clock.
GpioFireAndForget ==
  /\ (~aborted /\ ngpio < GpioLimit /\ Events < EventLimit) => ENABLED rp_gpio_handler
  /\ Len(Interrupts(wire[Gpio.rp])) = ngpio
  /\ \A a \in Adaptors \ {Gpio.rp} : Interrupts(wire[a]) = << >>
  /\ ngpio > 0 =>
       LET b == Interrupts(wire[Gpio.rp])[ngpio]
       IN  /\ Len(b) = SizeofInterrupt
           /\ DecodeHdr(b) = [cmd |-> RP_CMD_interrupt, len |-> SizeofInterrupt - SizeofHdr,
                              id |-> gpio_current_id - 1, flags |-> 0, dev |-> Gpio.rp_dev]
           /\ DecodeInterrupt(b) = [timestamp |-> gpio_call.clk, vector |-> 0,
                                    line |-> gpio_call.irq, val |-> gpio_call.level]

\* C9 witness: an interrupt packet was sent after a bus request whose response has
\* not arrived, while the caller is blocked holding the response mutex.
GpioFireAndForgetWitness ==
  \E t \in Threads :
    /\ pc[t] = "blocked" /\ frame[t].dev.rp = Gpio.rp /\ rsp_mutex[Gpio.rp] = t
    /\ ~rspqueue[Gpio.rp].valid /\ answered[Gpio.rp] = 0
    /\ Len(wire[Gpio.rp]) = 2 /\ IsBusRequest(wire[Gpio.rp][1])
    /\ IsInterrupt(wire[Gpio.rp][2])

\* C10: a thread that entered inside the execution context is outside it while it
\* is blocked in rp_wait_resp, and inside it again when the call returns.
SuspensionContract ==
  \A t \in Threads :
    frame[t].held =>
      /\ pc[t] = "blocked" => iothread /= t
      /\ pc[t] = "done" => iothread = t

\* the largest element of a sequence of naturals, 0 if it is empty
SeqMax(q) ==
  IF q = << >> THEN 0
  ELSE CHOOSE x \in {q[i] : i \in 1..Len(q)} : \A i \in 1..Len(q) : x >= q[i]

StrictlyIncreasing(q) == \A i, j \in 1..Len(q) : i < j => q[i] < q[j]

\* C11: the tracked peer clock never decreases; after each reconciliation it is the
\* largest response timestamp reconciled so far: the last one when the timestamps
\* increase strictly, and still 500 after the timestamps 500 then 480.
PeerClockMonotonic ==
  /\ [](\A a \in Adaptors :
         /\ peer_clk[a] = SeqMax(synclog[a])
         /\ (synclog[a] /= << >> /\ StrictlyIncreasing(synclog[a]))
              => peer_clk[a] = synclog[a][Len(synclog[a])]
         /\ synclog[a] = << 500, 480 >> => peer_clk[a] = 500)
  /\ [][\A a \in Adaptors : peer_clk'[a] >= peer_clk[a]]_vars

\* C11 witness: two transactions were reconciled, with timestamps 500 then 480.
PeerClockMonotonicWitness ==
  \E a \in Adaptors : synclog[a] = << 500, 480 >> /\ peer_clk[a] = 500

\* the pcs after rp_wait_resp has returned
PastWait == {"assert", "aborted", "extract", "invalidate", "unlock", "sync", "restart",
             "leave", "done"}

\* C12: a call gets past rp_wait_resp only with a response the peer delivered; as
\* long as there is none the caller cannot go on, it holds the response mutex, and
\* every other caller on the adaptor is kept at rp_rsp_mutex_lock.
NoTimeout ==
  /\ \A a \in Adaptors : Count(trace[a], "rsp") <= answered[a]
  /\ \A t \in Threads :
       /\ pc[t] \in PastWait => frame[t].rsp
       /\ (pc[t] \in {"wait", "blocked"} /\ ~rspqueue[frame[t].dev.rp].valid) =>
            /\ ~ENABLED WaitResp(t)
            /\ rsp_mutex[frame[t].dev.rp] = t
            /\ \A u \in Threads \ {t} :
                 (pc[u] = "lock" /\ frame[u].dev.rp = frame[t].dev.rp) => ~ENABLED Lock(u)

\* C12 witness: a caller is blocked with no response, and a later caller on the same
\* adaptor is stuck at the mutex.
NoTimeoutWitness ==
  \E t, u \in Threads :
    /\ t /= u /\ pc[t] = "blocked" /\ ~rspqueue[frame[t].dev.rp].valid
    /\ answered[frame[t].dev.rp] = 0
    /\ frame[u].dev.rp = frame[t].dev.rp /\ BlockedAtLock(u)

\* the timestamp in the request that t sent
RequestClk(t) ==
  LET r == BusRequests(wire[frame[t].dev.rp])
      i == CHOOSE k \in 1..Len(r) : DecodeHdr(r[k]).id = frame[t].id
  IN  DecodeBusaccess(r[i]).timestamp

\* C13: a call that received a matching response calls rp_sync_vmclock exactly once,
\* with the clock value placed in its request and the timestamp of its response,
\* then rp_restart_sync_timer exactly once, and only then returns.
SyncPoint ==
  \A t \in Threads :
    /\ pc[t] \in {"restart", "leave", "done"} =>
         /\ frame[t].got = frame[t].id
         /\ frame[t].synced = << << RequestClk(t), frame[t].gotts >> >>
    /\ pc[t] \in {"leave", "done"} <=> frame[t].restarts = 1
    /\ pc[t] \notin {"leave", "done"} => frame[t].restarts = 0
    /\ pc[t] \notin {"restart", "leave", "done"} => frame[t].synced = << >>

\* C13 witness: the second call in a row is about to return, reconciled with the
\* clock 1 it sampled and the timestamp 500 of its response.
SyncPointWitness ==
  \E t \in Threads :
    /\ pc[t] = "done" /\ ncalls = 2
    /\ frame[t].synced = << << 1, 500 >> >> /\ frame[t].restarts = 1

\* C14: the response buffer is read (id, data, timestamp) only by the thread that
\* holds the response mutex, while it is valid and still holds that thread's
\* response; once the transaction is over the thread has invalidated it exactly
\* once and no longer holds the mutex.
ResponseBufferDiscipline ==
  \A t \in Threads :
    /\ pc[t] \in {"assert", "extract", "invalidate"} =>
         /\ rsp_mutex[frame[t].dev.rp] = t
         /\ rspqueue[frame[t].dev.rp].valid
         /\ rspqueue[frame[t].dev.rp].hdr.id = frame[t].got
         /\ frame[t].invals = 0
    /\ pc[t] = "unlock" => (frame[t].invals = 1 /\ ~rspqueue[frame[t].dev.rp].valid)
    /\ pc[t] \in Unlocked => (frame[t].invals = 1 /\ rsp_mutex[frame[t].dev.rp] /= t)

\* C14 witness: a thread reads its response while another caller waits for the
\* mutex of the same adaptor.
ResponseBufferDisciplineWitness ==
  \E t, u \in Threads :
    /\ t /= u /\ pc[t] = "extract" /\ frame[t].got = frame[t].id
    /\ frame[u].dev.rp = frame[t].dev.rp /\ BlockedAtLock(u)

IsResponse(b) == DecodeHdr(b).flags = RP_PKT_FLAGS_response

\* the responses the slave has written
SlaveResponses == SelectSeq(wire[Slave.rp], IsResponse)

\* a request shape rp_cmd_rw supports
GoodShape(p) ==
  p.width = 0 /\ p.stream_width = p.len /\ p.flags \notin {RP_PKT_FLAGS_response}

\* the requests rp_cmd_rw has accepted: all but a last one of an unsupported shape
SlaveAccepted ==
  slave.handled - (IF slave.handled > 0 /\ ~GoodShape(slave.req) THEN 1 ELSE 0)

\* C15: the slave has written exactly one response per accepted request, and the
\* response to the last one carries its id, dev, address, attributes, len, width,
\* stream_width and timestamp; a read response is followed by the len bytes read
\* from memory, a write response by nothing.
SlaveEchoes ==
  /\ Len(SlaveResponses) = SlaveAccepted
  /\ (slave.handled > 0 /\ GoodShape(slave.req)) =>
       LET p == slave.req
           b == SlaveResponses[Len(SlaveResponses)]
           n == IF p.cmd = RP_CMD_read THEN p.len ELSE 0
       IN  /\ Len(b) = SizeofBusaccess + n
           /\ DecodeHdr(b) = [cmd |-> p.cmd, len |-> SizeofBusaccess - SizeofHdr + n,
                              id |-> p.id, flags |-> RP_PKT_FLAGS_response, dev |-> p.dev]
           /\ DecodeBusaccess(b).timestamp = p.timestamp
           /\ DecodeBusaccess(b).addr = p.addr
           /\ U64(DecodeBusaccess(b).attributes) = p.attributes
           /\ DecodeBusaccess(b).len = p.len
           /\ DecodeBusaccess(b).width = p.width
           /\ DecodeBusaccess(b).stream_width = p.stream_width
           /\ p.cmd = RP_CMD_read => TrailingData(b) = MemRead(p.addr, p.len)

\* C16: a step of rp_cmd_rw on a request of an unsupported shape aborts and has
\* allocated nothing, accessed no memory and written nothing.
SlaveRejects ==
  [][(slave'.handled = slave.handled + 1 /\ ~GoodShape(slave'.req)) =>
       (aborted' /\ wire' = wire /\ mem' = mem /\ slave'.live = slave.live)]_vars

\* C16 witness: a request with beat width 4 has been rejected.
SlaveRejectsWitness ==
  /\ slave.handled > 0 /\ slave.req.width = 4 /\ aborted
  /\ SlaveResponses = << >>

\* C17: every bus request a master has written has beat width 0, stream_width equal
\* to len equal to the access size, and no response flag; the slave it is connected
\* to accepts it and answers it.
RequestShape ==
  /\ \A a \in Adaptors : \A i \in 1..Len(BusRequests(wire[a])) :
       LET p == DecodeRequest(BusRequests(wire[a])[i])
       IN  /\ p.width = 0 /\ p.stream_width = p.len /\ p.flags = 0
           /\ p.len \in 1..8
           /\ GoodShape(p)
  /\ \A t \in Threads :
       pc[t] \in {"wait", "blocked"} => DecodeBusaccess(LastRequest(t)).len = frame[t].size
  /\ (slave.handled > 0 /\ \E i \in 1..Len(BusRequests(wire[1])) :
                            slave.req = DecodeRequest(BusRequests(wire[1])[i]))
       => Len(SlaveResponses) = slave.handled

\* C17 witness: the slave has accepted and answered a 2-byte write request that a
\* master produced.
RequestShapeWitness ==
  /\ slave.handled = 1 /\ slave.req.cmd = RP_CMD_write /\ slave.req.len = 2
  /\ slave.req = DecodeRequest(BusRequests(wire[1])[1])
  /\ Len(SlaveResponses) = 1 /\ ~aborted

\* C18: the response buffers the slave has allocated and not freed are at most one,
\* however many requests it has handled.
BoundedSlaveBuffers == slave.live <= 1

\* C19, as claimed: the id of an interrupt packet differs from the id of every
\* packet written to the adaptor before it.
FreshInterruptIds ==
  \A i \in 1..Len(wire[Gpio.rp]) :
    IsInterrupt(wire[Gpio.rp][i]) =>
      \A j \in 1..(i - 1) : DecodeHdr(wire[Gpio.rp][j]).id /= DecodeHdr(wire[Gpio.rp][i]).id

\* C19, amended: the ids of the interrupt packets of the GPIO device are the values
\* 0, 1, 2, ... of its own counter, so they differ from one another (not from the
\* ids of the bus requests).
InterruptIdsDistinct ==
  /\ \A i \in 1..Len(Interrupts(wire[Gpio.rp])) :
       DecodeHdr(Interrupts(wire[Gpio.rp])[i]).id = i - 1
  /\ \A i, j \in 1..Len(Interrupts(wire[Gpio.rp])) :
       i /= j => DecodeHdr(Interrupts(wire[Gpio.rp])[i]).id
                   /= DecodeHdr(Interrupts(wire[Gpio.rp])[j]).id

\* C19 witness: two interrupt packets were sent while a bus request with the id of
\* the first of them is outstanding.
InterruptIdsDistinctWitness ==
  \E t \in Threads :
    /\ pc[t] = "blocked" /\ frame[t].dev.rp = Gpio.rp /\ frame[t].id = 0
    /\ Len(Interrupts(wire[Gpio.rp])) = 2
    /\ DecodeHdr(Interrupts(wire[Gpio.rp])[1]).id = 0

\* C20: the index with which rp_gpio_interrupt subscripts gpio_out is below
\* num_gpios.
InboundLineBound == gpio_in.n > 0 => gpio_in.line < Gpio.num_gpios

\* no call of rp_io_read or rp_io_write is under way
NoCallInProgress == \A t \in Threads : pc[t] = "idle"

\* a call that is under way returns
EveryCallReturns == \A t \in Threads : (pc[t] # "idle") ~> (pc[t] = "idle")

\* between calls no thread holds a response mutex
MutexFreeAtRest == NoCallInProgress => \A a \in Adaptors : rsp_mutex[a] = None

====
